---- MODULE Spec2Model ----
(***************************************************************************)
(* A model of the Japanese-furigana add-on: the generateFurigana facade    *)
(* and the batch driver bulkGenerate (bulk.py), the background scan        *)
(* run_furigana_scan / do_update (__init__.py) and the auto-saving Config  *)
(* object (config.py).                                                     *)
(*                                                                         *)
(* Text is modelled as a sequence of symbols.  A symbol is one character,  *)
(* except that an HTML tag ("<br>", "<ruby>", ...) and the entity "&nbsp;" *)
(* are one symbol each.                                                    *)
(***************************************************************************)
EXTENDS Integers, Sequences, FiniteSets, TLC

\* ------------------------------------------------------------------ bounds
\* Longest text handed to generateFurigana by the editor in SpecGen.
MaxLen == 4

\* ------------------------------------------------------------------- text
Whitespace == {" ", "\t"}
Tags == {"<br>", "<ruby>", "<rt>", "</rt>", "</ruby>"}
Brackets == {"[", "]"}
\* "K" stands for a kanji, "a" for a kana, "2" for a numeral.
KanjiReading == <<"a">>
NumeralReading == <<"a">>

RECURSIVE TextsUpTo(_, _)
\* All texts of at most n symbols over the alphabet.
TextsUpTo(alphabet, n) ==
  IF n = 0 THEN {<<>>}
  ELSE LET shorter == TextsUpTo(alphabet, n - 1)
       IN  shorter \cup {Append(s, c) : s \in {x \in shorter : Len(x) = n - 1}, c \in alphabet}

RECURSIVE LStrip(_)
LStrip(s) ==
  IF s # <<>> /\ Head(s) \in Whitespace THEN LStrip(Tail(s)) ELSE s

RECURSIVE RStrip(_)
RStrip(s) ==
  IF s # <<>> /\ s[Len(s)] \in Whitespace THEN RStrip(SubSeq(s, 1, Len(s) - 1)) ELSE s

\* str.strip(): leading and trailing whitespace removed.
PyStrip(s) == RStrip(LStrip(s))

\* The positions j > i of s that hold symbol c.
PositionsAfter(s, i, c) == {j \in (i + 1)..Len(s) : s[j] = c}

Min(S) == CHOOSE x \in S : \A y \in S : x <= y

\* The end of a bracket annotation "[reading]" that starts at position i
\* (s[i] = "["), or 0: a non-empty run of non-bracket symbols, then "]".
BracketEnd(s, i) ==
  LET closes == PositionsAfter(s, i + 1, "]")
  IN  IF closes = {} THEN 0
      ELSE LET j == Min(closes)
           IN  IF \A k \in (i + 1)..(j - 1) : s[k] # "[" THEN j ELSE 0

\* The end of a ruby annotation that starts at position i (s[i] = "<ruby>"),
\* as <<position of "<rt>", position of "</ruby>">>, or <<0, 0>>.
RubyEnd(s, i) ==
  LET rts == PositionsAfter(s, i + 1, "<rt>")
  IN  IF rts = {} THEN <<0, 0>>
      ELSE LET j == Min(rts)
               ends == PositionsAfter(s, j + 1, "</rt>")
           IN  IF ends = {} THEN <<0, 0>>
               ELSE LET k == Min(ends)
                    IN  IF k + 1 <= Len(s) /\ s[k + 1] = "</ruby>"
                        THEN <<j, k + 1>> ELSE <<0, 0>>

IsBase(c) == c \notin Brackets /\ c \notin Whitespace /\ c \notin Tags

RECURSIVE RemoveFrom(_, _)
RemoveFrom(s, i) ==
  IF i > Len(s) THEN <<>>
  ELSE IF s[i] = "<ruby>" /\ RubyEnd(s, i)[1] # 0
       THEN SubSeq(s, i + 1, RubyEnd(s, i)[1] - 1) \o RemoveFrom(s, RubyEnd(s, i)[2] + 1)
  ELSE IF IsBase(s[i]) /\ i + 1 <= Len(s) /\ s[i + 1] = "[" /\ BracketEnd(s, i + 1) # 0
       THEN <<s[i]>> \o RemoveFrom(s, BracketEnd(s, i + 1) + 1)
  ELSE <<s[i]>> \o RemoveFrom(s, i + 1)

\* utils.removeFurigana: every bracket and ruby annotation removed, the base kept.
removeFurigana(text) == RemoveFrom(text, 1)

\* One annotated token, in bracket form or in ruby form.
Annotate(c, rd, use_ruby_tags) ==
  IF use_ruby_tags THEN <<"<ruby>", c, "<rt>">> \o rd \o <<"</rt>", "</ruby>">>
  ELSE <<c, "[">> \o rd \o <<"]">>

RECURSIVE ReadingFrom(_, _, _, _)
ReadingFrom(s, i, ignore_numbers, use_ruby_tags) ==
  IF i > Len(s) THEN <<>>
  ELSE (IF s[i] = "K" THEN Annotate(s[i], KanjiReading, use_ruby_tags)
        ELSE IF s[i] = "2" /\ ~ignore_numbers THEN Annotate(s[i], NumeralReading, use_ruby_tags)
        ELSE <<s[i]>>)
       \o ReadingFrom(s, i + 1, ignore_numbers, use_ruby_tags)

\* MecabController.reading when the analyzer answers: kanji annotated, numerals
\* annotated unless ignored, kana, markup and everything else copied.
MecabReading(text, ignore_numbers, use_ruby_tags) ==
  ReadingFrom(text, 1, ignore_numbers, use_ruby_tags)

\* ------------------------------------------------- generateFurigana (bulk.py)
\* bulk.py line 79: "if not html or not html.strip()".
IsBlankHtmlNoStrip(html) == html = <<>>
IsBlankHtml(html) == html = <<>> \/ PyStrip(html) = <<>>

\* bulk.py line 81: the text the tokenizer is given.
HtmlNoFuriganaUnstripped(html) == html
HtmlNoFurigana(html) == removeFurigana(html)

\* The value generateFurigana returns when the tokenizer answers.
generateFurigana(html, ignore_numbers, use_ruby_tags) ==
  IF IsBlankHtml(html) THEN <<>>
  ELSE MecabReading(HtmlNoFurigana(html), ignore_numbers, use_ruby_tags)

\* The threads that call generateFurigana: Qt's main thread (the editor button)
\* and the background thread that runs the QueryOp of a scan.
Threads == {"main", "bg"}

VARIABLES
  gpc,      \* per thread: where its generateFurigana call stands
  ghtml,    \* per thread: the html argument of the call
  gopts,    \* per thread: <<ignore_numbers, use_ruby_tags>> of the call
  garg,     \* per thread: html_no_furigana
  gres,     \* per thread: the value returned
  glog      \* per thread: the calls the current generateFurigana call has made

genVars == <<gpc, ghtml, gopts, garg, gres, glog>>

GenInit ==
  /\ gpc = [t \in Threads |-> "idle"]
  /\ ghtml = [t \in Threads |-> <<>>]
  /\ gopts = [t \in Threads |-> <<FALSE, FALSE>>]
  /\ garg = [t \in Threads |-> <<>>]
  /\ gres = [t \in Threads |-> <<>>]
  /\ glog = [t \in Threads |-> <<>>]

\* Lines 79-81: the blank check, then removeFurigana.
GenCall(t, html, ignore_numbers, use_ruby_tags) ==
  /\ gpc[t] = "idle"
  /\ ghtml' = [ghtml EXCEPT ![t] = html]
  /\ gopts' = [gopts EXCEPT ![t] = <<ignore_numbers, use_ruby_tags>>]
  /\ IF IsBlankHtml(html)
     THEN /\ gpc' = [gpc EXCEPT ![t] = "done"]
          /\ gres' = [gres EXCEPT ![t] = <<>>]
          /\ garg' = [garg EXCEPT ![t] = <<>>]
          /\ glog' = [glog EXCEPT ![t] = <<>>]
     ELSE /\ gpc' = [gpc EXCEPT ![t] = "tokenize"]
          /\ garg' = [garg EXCEPT ![t] = HtmlNoFurigana(html)]
          /\ glog' = [glog EXCEPT ![t] = << <<"removeFurigana", html>> >>]
          /\ gres' = [gres EXCEPT ![t] = <<>>]

\* Line 82: the request is written to the analyzer.
GenReadingBegin(t) ==
  /\ gpc[t] = "tokenize"
  /\ gpc' = [gpc EXCEPT ![t] = "inflight"]
  /\ glog' = [glog EXCEPT ![t] = Append(@, <<"reading", garg[t], gopts[t][1], gopts[t][2]>>)]
  /\ UNCHANGED <<ghtml, gopts, garg, gres>>

\* Lines 82-83: the analyzer answers and the answer is returned.
GenReadingEnd(t) ==
  /\ gpc[t] = "inflight"
  /\ gpc' = [gpc EXCEPT ![t] = "done"]
  /\ gres' = [gres EXCEPT ![t] = MecabReading(garg[t], gopts[t][1], gopts[t][2])]
  /\ UNCHANGED <<ghtml, gopts, garg, glog>>

\* Line 82: the analyzer fails; nothing catches the exception.
GenReadingFail(t) ==
  /\ gpc[t] = "inflight"
  /\ gpc' = [gpc EXCEPT ![t] = "raised"]
  /\ UNCHANGED <<ghtml, gopts, garg, gres, glog>>

\* The caller takes the result (or the exception); the call's locals are gone.
GenReturn(t) ==
  /\ gpc[t] \in {"done", "raised"}
  /\ gpc' = [gpc EXCEPT ![t] = "idle"]
  /\ ghtml' = [ghtml EXCEPT ![t] = <<>>]
  /\ gopts' = [gopts EXCEPT ![t] = <<FALSE, FALSE>>]
  /\ garg' = [garg EXCEPT ![t] = <<>>]
  /\ gres' = [gres EXCEPT ![t] = <<>>]
  /\ glog' = [glog EXCEPT ![t] = <<>>]

\* The editor button: generateFurigana on the selected html, on the main thread.
GenAlphabet == {" ", "K", "2", "a", "[", "]"}

onGenerateFurigana ==
  /\ gpc["main"] = "idle"
  /\ \E html \in TextsUpTo(GenAlphabet, MaxLen), ign \in BOOLEAN, ruby \in BOOLEAN :
    GenCall("main", html, ign, ruby)



\* ------------------------------------------------------------ the collection
\* Number of notes in the collection.
NumNotes == 2
\* A behaviour runs one bulkGenerate call, or up to MaxOps scans.
MaxOps == 2

NoteIds == 1..NumNotes

Empty == <<>>
Kanji == <<"K">>
KanjiBracket == <<"K", "[", "a", "]">>
Kana == <<"a">>

\* Notes a collection may hold: the deck of the note's first card and its fields.
NoteSamples ==
  { [deck |-> <<"D">>,
     flds |-> [f \in {"Expression", "Reading", "Notes"} |->
                 IF f = "Expression" THEN Kanji ELSE Empty]],
    [deck |-> <<"D", "S">>,
     flds |-> [f \in {"Expression", "Reading", "Notes"} |->
                 IF f = "Expression" THEN <<"K", "2">> ELSE <<"K", "[", "a", "]", "2">>]],
    [deck |-> <<"D">>,
     flds |-> [f \in {"Expression", "Reading"} |-> Kanji]],
    [deck |-> <<"E">>,
     flds |-> [f \in {"Expression", "Reading", "Notes"} |->
                 IF f = "Expression" THEN Empty
                 ELSE IF f = "Reading" THEN Kana ELSE <<"<br>">>]],
    [deck |-> <<"D">>,
     flds |-> [f \in {"Expression", "Reading", "Notes"} |->
                 IF f = "Expression" THEN <<" ">>
                 ELSE IF f = "Reading" THEN <<" ", "&nbsp;">> ELSE Kanji]] }

\* The notes of the collections on which the timing of a batch is explored.
TimedNoteSamples ==
  {s \in NoteSamples : s.deck = <<"D">> /\ s.flds["Expression"] = Kanji}

\* A field pair; "" stands for a missing or empty name (pair.get gives None).
Pair(s, d) == [source |-> s, destination |-> d]

PairLists ==
  { <<>>,
    <<Pair("Expression", "Reading")>>,
    <<Pair("Expression", "Reading"), Pair("Reading", "Notes")>>,
    <<Pair("Reading", "Notes"), Pair("Expression", "Reading")>>,
    <<Pair("", "Reading"), Pair("Expression", ""), Pair("Notes", "Reading")>> }

\* <<ignore_numbers, use_ruby_tags>>
OptionSamples == {<<TRUE, FALSE>>, <<FALSE, TRUE>>}

Range(q) == {q[k] : k \in DOMAIN q}

RECURSIVE DistinctSeqs(_, _)
\* The sequences of at most n distinct elements of S.
DistinctSeqs(S, n) ==
  IF n = 0 THEN {<<>>}
  ELSE LET shorter == DistinctSeqs(S, n - 1)
       IN  shorter \cup UNION {{Append(q, x) : x \in S \ Range(q)} :
                                 q \in {y \in shorter : Len(y) = n - 1}}

VARIABLES
  col,              \* the collection: note id -> [deck, flds] as stored
  ops,              \* batch operations started so far
  bulk,             \* the running bulkGenerate call: its arguments and locals
  clock,            \* time.time(), in ticks of 0.05 s
  reports,          \* the progress(done, total) calls made, each with its time
  calls,            \* the collection calls of the running batch, in order
  cancelRequested   \* the user has asked the running batch to stop

\* bulk.py line 66: 0.1 s, in ticks.
ProgressInterval == 2
\* The clock stops here (ticks).
MaxClock == 5

BulkIdle ==
  [pc |-> "idle", noteIds |-> <<>>, field_pairs |-> <<>>, progress |-> FALSE,
   ignore_numbers |-> FALSE, use_ruby_tags |-> FALSE, i |-> 0, j |-> 0,
   note |-> <<>>, is_modified |-> FALSE, notes_modified_count |-> 0,
   last_progress_update |-> 0, col0 |-> <<>>]

BulkInit ==
  /\ col \in [NoteIds -> NoteSamples]
  /\ ops = 0
  /\ bulk = BulkIdle
  /\ clock = ProgressInterval
  /\ reports = <<>>
  /\ calls = <<>>
  /\ cancelRequested = FALSE

\* Lines 34-37: the batch begins.  i is the 1-based position in noteIds.
BulkStart(noteIds, field_pairs, progress, ignore_numbers, use_ruby_tags) ==
  /\ bulk.pc = "idle"
  /\ ops = 0
  /\ ops' = MaxOps
  /\ bulk' = [BulkIdle EXCEPT !.pc = "loop", !.noteIds = noteIds,
                !.field_pairs = field_pairs, !.progress = progress,
                !.ignore_numbers = ignore_numbers, !.use_ruby_tags = use_ruby_tags,
                !.i = 1, !.col0 = col]
  /\ calls' = << <<"add_custom_undo_entry">> >>
  /\ reports' = <<>>
  /\ UNCHANGED <<col, clock, cancelRequested>>

\* Lines 39-41: the next note is loaded, or (line 71) the count is returned.
BulkGetNote ==
  /\ bulk.pc = "loop"
  /\ IF bulk.i <= Len(bulk.noteIds)
     THEN /\ bulk' = [bulk EXCEPT !.pc = "pairs", !.note = col[bulk.noteIds[bulk.i]].flds,
                        !.is_modified = FALSE, !.j = 1]
          /\ calls' = Append(calls, <<"get_note", bulk.noteIds[bulk.i]>>)
     ELSE /\ bulk' = [bulk EXCEPT !.pc = "done"]
          /\ UNCHANGED calls
  /\ UNCHANGED <<col, ops, clock, reports, cancelRequested>>

\* Line 47 and line 50: whether the pair reaches generateFurigana for this note.
BulkPairApplies(pair, note) ==
  /\ pair.source # "" /\ pair.destination # ""
  /\ pair.source \in DOMAIN note /\ pair.destination \in DOMAIN note
  /\ note[pair.source] # <<>>

\* Lines 57 and 121 (__init__.py): assigning to a field of the loaded note changes
\* the note object only; the collection keeps what it stores.
StoreAfterAssignWriteThrough(c, nid, flds) == [c EXCEPT ![nid].flds = flds]
StoreAfterAssign(c, nid, flds) == c

\* Lines 43-58: one field pair, when generateFurigana returns.
BulkPair ==
  /\ bulk.pc = "pairs"
  /\ bulk.j <= Len(bulk.field_pairs)
  /\ LET pair == bulk.field_pairs[bulk.j]
         note == bulk.note
     IN  IF BulkPairApplies(pair, note)
         THEN LET generated_text ==
                    generateFurigana(note[pair.source], bulk.ignore_numbers, bulk.use_ruby_tags)
              IN  IF note[pair.destination] # generated_text
                  THEN bulk' = [bulk EXCEPT !.note = [note EXCEPT ![pair.destination] = generated_text],
                                  !.is_modified = TRUE, !.j = @ + 1]
                  ELSE bulk' = [bulk EXCEPT !.j = @ + 1]
         ELSE bulk' = [bulk EXCEPT !.j = @ + 1]
  /\ col' = StoreAfterAssign(col, bulk.noteIds[bulk.i], bulk'.note)
  /\ UNCHANGED <<ops, clock, reports, calls, cancelRequested>>

\* Line 53: the tokenizer fails inside generateFurigana; bulkGenerate has no handler.
BulkPairFail ==
  /\ bulk.pc = "pairs"
  /\ bulk.j <= Len(bulk.field_pairs)
  /\ BulkPairApplies(bulk.field_pairs[bulk.j], bulk.note)
  /\ ~IsBlankHtml(bulk.note[bulk.field_pairs[bulk.j].source])
  /\ bulk' = [bulk EXCEPT !.pc = "raised"]
  /\ UNCHANGED <<col, ops, clock, reports, calls, cancelRequested>>

\* Line 60: whether the note is committed.
BulkCommitsAlways(is_modified) == TRUE
BulkCommits(is_modified) == is_modified

\* Lines 60-63: the note is committed if a field was assigned.
BulkEndNote ==
  /\ bulk.pc = "pairs"
  /\ bulk.j > Len(bulk.field_pairs)
  /\ LET nid == bulk.noteIds[bulk.i]
     IN  IF BulkCommits(bulk.is_modified)
         THEN /\ bulk' = [bulk EXCEPT !.pc = "progress", !.notes_modified_count = @ + 1]
              /\ col' = [col EXCEPT ![nid].flds = bulk.note]
              /\ calls' = calls \o << <<"update_note", nid>>, <<"merge_undo_entries">> >>
         ELSE /\ bulk' = [bulk EXCEPT !.pc = "progress"]
              /\ UNCHANGED <<col, calls>>
  /\ UNCHANGED <<ops, clock, reports, cancelRequested>>

\* Line 66: whether a progress update is due.
ProgressDueAlways(now, last_progress_update) == TRUE
ProgressDue(now, last_progress_update) == now - last_progress_update >= ProgressInterval

\* Line 66: the clock is read; is an update due?
BulkProgressCheck ==
  /\ bulk.pc = "progress"
  /\ IF ProgressDue(clock, bulk.last_progress_update)
     THEN bulk' = [bulk EXCEPT !.pc = "report"]
     ELSE bulk' = [bulk EXCEPT !.pc = "loop", !.i = @ + 1]
  /\ UNCHANGED <<col, ops, clock, reports, calls, cancelRequested>>

\* Lines 67-68: progress(i + 1, total_notes) is called if a sink was given.
BulkReport ==
  /\ bulk.pc = "report"
  /\ bulk' = [bulk EXCEPT !.pc = "setlast"]
  /\ reports' = IF bulk.progress
                THEN Append(reports, [done |-> bulk.i, total |-> Len(bulk.noteIds), at |-> clock])
                ELSE reports
  /\ UNCHANGED <<col, ops, clock, calls, cancelRequested>>

\* Line 69: the clock is read again, after progress has returned.
BulkSetLast ==
  /\ bulk.pc = "setlast"
  /\ bulk' = [bulk EXCEPT !.pc = "loop", !.i = @ + 1, !.last_progress_update = clock]
  /\ UNCHANGED <<col, ops, clock, reports, calls, cancelRequested>>

\* The caller has the count (or the exception); the call's locals are gone.
BulkReturn ==
  /\ bulk.pc \in {"done", "raised"}
  /\ bulk' = BulkIdle
  /\ reports' = <<>>
  /\ calls' = <<>>
  /\ cancelRequested' = FALSE
  /\ UNCHANGED <<col, ops, clock>>

\* Time passes while a batch runs.
Tick ==
  /\ bulk.pc \notin {"idle", "done", "raised"}
  /\ clock < MaxClock
  /\ clock' = clock + 1
  /\ UNCHANGED <<col, ops, bulk, reports, calls, cancelRequested>>

\* The user asks the running batch to stop.
RequestCancel ==
  /\ bulk.pc \notin {"idle", "done", "raised"}
  /\ ~cancelRequested
  /\ cancelRequested' = TRUE
  /\ UNCHANGED <<col, ops, bulk, clock, reports, calls>>

BulkCall ==
  /\ bulk.pc = "idle" /\ ops = 0
  /\ \E noteIds \in DistinctSeqs(NoteIds, NumNotes), field_pairs \in PairLists,
     progress \in BOOLEAN, opts \in OptionSamples :
    BulkStart(noteIds, field_pairs, progress, opts[1], opts[2])



\* A bulkGenerate call whose arguments vary only in what the timing depends on.
BulkCallTimed ==
  /\ bulk.pc = "idle" /\ ops = 0
  /\ \E noteIds \in DistinctSeqs(NoteIds, NumNotes), progress \in BOOLEAN :
    BulkStart(noteIds, <<Pair("Expression", "Reading")>>, progress, TRUE, FALSE)

\* --------------------------------------------- run_furigana_scan (__init__.py)
\* A rule of autoGenerateConfig; <<>> stands for an empty deckName.
Rule(d, pairs) == [deckName |-> d, fieldPairs |-> pairs]

RuleLists ==
  { <<>>,
    <<Rule(<<"D">>, <<Pair("Expression", "Reading")>>)>>,
    <<Rule(<<"D">>, <<Pair("Reading", "Notes"), Pair("Expression", "Reading")>>)>>,
    <<Rule(<<>>, <<Pair("Expression", "Reading")>>),
      Rule(<<"E">>, <<Pair("Reading", "Notes")>>)>>,
    <<Rule(<<"D", "S">>, <<>>),
      Rule(<<"D">>, <<Pair("Notes", "Reading"), Pair("Expression", "Reading")>>)>> }

\* Lines 40-44.  re.sub('<[^<]+?>', '', ...) removes the tag symbols.
RemoveTags(s) == SelectSeq(s, LAMBDA c : c \notin Tags)
RemoveNbsp(s) == SelectSeq(s, LAMBDA c : c # "&nbsp;")
is_field_effectively_empty(field_content) ==
  IF field_content = <<>> THEN TRUE
  ELSE RemoveNbsp(PyStrip(RemoveTags(field_content))) = <<>>

\* Line 109, and the deck:"..." search of line 54: the deck or one of its sub-decks.
\* A deck name is the sequence of its "::"-separated components.
DeckMatches(deck_name, rule_deck_name) ==
  /\ rule_deck_name # <<>>
  /\ Len(rule_deck_name) <= Len(deck_name)
  /\ SubSeq(deck_name, 1, Len(rule_deck_name)) = rule_deck_name

\* Lines 62 and 114: the pair's fields exist on the note and the source has content.
ScanPairApplies(pair, note) ==
  /\ pair.source \in DOMAIN note /\ pair.destination \in DOMAIN note
  /\ note[pair.source] # <<>>

\* Lines 66 and 118: the decision to generate.
NeedsGenerationAlways(source_text, destination_text) == TRUE
NeedsGeneration(source_text, destination_text) ==
  is_field_effectively_empty(destination_text) \/ source_text = destination_text

\* Lines 46-70: the ids of the notes some rule selects.
find_notes_to_process(c, rules) ==
  { n \in DOMAIN c :
      \E r \in DOMAIN rules :
        /\ DeckMatches(c[n].deck, rules[r].deckName)
        /\ \E j \in DOMAIN rules[r].fieldPairs :
             LET pair == rules[r].fieldPairs[j]
             IN  /\ ScanPairApplies(pair, c[n].flds)
                 /\ NeedsGeneration(c[n].flds[pair.source], c[n].flds[pair.destination]) }

\* The find_notes queries of lines 53-54, one per rule that names a deck.
FindCalls(rules) ==
  LET named == SelectSeq(rules, LAMBDA rule : rule.deckName # <<>>)
  IN  [k \in DOMAIN named |-> <<"find_notes", named[k].deckName>>]

\* The configurations a scan may find: autoGenerateConfig's enabled and rules,
\* and opts = <<ignoreNumbers, useRubyTags>>.
ConfigSamples ==
  [enabled : BOOLEAN, rules : RuleLists, opts : OptionSamples, read : {TRUE}]

\* No scan is running.
ConfigUnread == [enabled |-> FALSE, rules |-> <<>>, opts |-> <<FALSE, FALSE>>, read |-> FALSE]

\* The orders in which list(set) may yield the ids.
Orders(ids) == {q \in DistinctSeqs(ids, Cardinality(ids)) : Len(q) = Cardinality(ids)}

VARIABLES
  config,           \* the configuration the running scan works with
  scan              \* the running scan: its arguments and the locals of do_update

batchVars == <<col, ops, bulk, clock, reports, calls, cancelRequested, config, scan>>

ScanIdle ==
  [pc |-> "idle", is_manual |-> FALSE, rules |-> <<>>, nids |-> <<>>,
   k |-> 0, r |-> 0, j |-> 0, note |-> <<>>, note_was_modified |-> FALSE,
   notes_modified_count |-> 0, col0 |-> <<>>]

\* Line 74: a scan that is not manual returns when enabled is false.
ScanSkipsNever(enabled, is_manual) == FALSE
ScanSkips(enabled, is_manual) == ~enabled /\ ~is_manual

\* Lines 72-95 and 133: the configuration is read, the notes are looked up and,
\* if there are any, do_update is started in the background.  nids is the list
\* of line 70.
run_furigana_scan(is_manual, scan_config, nids) ==
  /\ scan.pc = "idle" /\ bulk.pc = "idle"
  /\ ops < MaxOps
  /\ ops' = ops + 1
  /\ LET args == [ScanIdle EXCEPT !.is_manual = is_manual, !.rules = scan_config.rules,
                    !.col0 = col]
     IN  IF ScanSkips(scan_config.enabled, is_manual) \/ scan_config.rules = <<>>
         THEN /\ nids = <<>>
              /\ scan' = [args EXCEPT !.pc = "returned"]
              /\ calls' = <<>>
         ELSE IF find_notes_to_process(col, scan_config.rules) = {}
         THEN /\ nids = <<>>
              /\ scan' = [args EXCEPT !.pc = "returned"]
              /\ calls' = FindCalls(scan_config.rules)
         ELSE /\ nids \in Orders(find_notes_to_process(col, scan_config.rules))
              /\ scan' = [args EXCEPT !.pc = "loop", !.nids = nids, !.k = 1]
              /\ calls' = Append(FindCalls(scan_config.rules), <<"run_in_background">>)
  /\ UNCHANGED <<col, bulk, clock, reports, cancelRequested>>

\* Lines 99-101: the next note is loaded, or (line 126) the count is returned.
ScanGetNote ==
  /\ scan.pc = "loop"
  /\ IF scan.k <= Len(scan.nids)
     THEN /\ scan' = [scan EXCEPT !.pc = "pairs", !.note = col[scan.nids[scan.k]].flds,
                        !.note_was_modified = FALSE, !.r = 1, !.j = 1]
          /\ calls' = Append(calls, <<"get_note", scan.nids[scan.k]>>)
     ELSE /\ scan' = [scan EXCEPT !.pc = "done"]
          /\ UNCHANGED calls
  /\ UNCHANGED <<col, ops, bulk, clock, reports, cancelRequested, config>>

\* The rule do_update is at applies to the note's deck and has a pair left.
ScanAtPair ==
  /\ scan.pc = "pairs"
  /\ scan.r <= Len(scan.rules)
  /\ DeckMatches(col[scan.nids[scan.k]].deck, scan.rules[scan.r].deckName)
  /\ scan.j <= Len(scan.rules[scan.r].fieldPairs)

\* Lines 102-110: on to the next rule.
ScanNextRule ==
  /\ scan.pc = "pairs"
  /\ scan.r <= Len(scan.rules)
  /\ ~ScanAtPair
  /\ scan' = [scan EXCEPT !.r = @ + 1, !.j = 1]
  /\ UNCHANGED <<col, ops, bulk, clock, reports, calls, cancelRequested, config>>

\* Line 120: the destination is assigned only a value that differs from it.
ScanAssignsAlways(generated_text, destination_text) == TRUE
ScanAssigns(generated_text, destination_text) == generated_text # destination_text

\* Lines 110-122: one field pair, when generateFurigana returns.
ScanPair ==
  /\ ScanAtPair
  /\ LET pair == scan.rules[scan.r].fieldPairs[scan.j]
         note == scan.note
     IN  IF ScanPairApplies(pair, note)
            /\ NeedsGeneration(note[pair.source], note[pair.destination])
         THEN LET generated_text ==
                    generateFurigana(note[pair.source], config.opts[1], config.opts[2])
              IN  IF ScanAssigns(generated_text, note[pair.destination])
                  THEN scan' = [scan EXCEPT !.note = [note EXCEPT ![pair.destination] = generated_text],
                                  !.note_was_modified = TRUE, !.j = @ + 1]
                  ELSE scan' = [scan EXCEPT !.j = @ + 1]
         ELSE scan' = [scan EXCEPT !.j = @ + 1]
  /\ col' = StoreAfterAssign(col, scan.nids[scan.k], scan'.note)
  /\ UNCHANGED <<ops, bulk, clock, reports, calls, cancelRequested, config>>

\* Line 119: the tokenizer fails inside generateFurigana; do_update has no handler.
ScanPairFail ==
  /\ ScanAtPair
  /\ LET pair == scan.rules[scan.r].fieldPairs[scan.j]
     IN  /\ ScanPairApplies(pair, scan.note)
         /\ NeedsGeneration(scan.note[pair.source], scan.note[pair.destination])
         /\ ~IsBlankHtml(scan.note[pair.source])
  /\ scan' = [scan EXCEPT !.pc = "raised"]
  /\ UNCHANGED <<col, ops, bulk, clock, reports, calls, cancelRequested, config>>

\* Line 123: whether the note is flushed.
ScanFlushes(note_was_modified) == note_was_modified

\* Lines 123-125: the note is flushed if a field was assigned.
ScanEndNote ==
  /\ scan.pc = "pairs"
  /\ scan.r > Len(scan.rules)
  /\ LET nid == scan.nids[scan.k]
     IN  IF ScanFlushes(scan.note_was_modified)
         THEN /\ scan' = [scan EXCEPT !.pc = "loop", !.k = @ + 1,
                            !.notes_modified_count = @ + 1]
              /\ col' = [col EXCEPT ![nid].flds = scan.note]
              /\ calls' = Append(calls, <<"flush", nid>>)
         ELSE /\ scan' = [scan EXCEPT !.pc = "loop", !.k = @ + 1]
              /\ UNCHANGED <<col, calls>>
  /\ UNCHANGED <<ops, bulk, clock, reports, cancelRequested, config>>

\* Lines 128-131 (on_done), or the failure of the operation: the scan is over.
ScanReturn ==
  /\ scan.pc \in {"done", "raised", "returned"}
  /\ scan' = ScanIdle
  /\ config' = ConfigUnread
  /\ calls' = <<>>
  /\ UNCHANGED <<col, ops, bulk, clock, reports, cancelRequested>>

\* A scan, manual or from the timer, with the configuration as it is then.
ScanCall ==
  /\ scan.pc = "idle" /\ bulk.pc = "idle" /\ ops < MaxOps
  /\ \E is_manual \in BOOLEAN, scan_config \in ConfigSamples :
    /\ \E nids \in Orders(find_notes_to_process(col, scan_config.rules)) \cup {<<>>} :
         /\ run_furigana_scan(is_manual, scan_config, nids)
         /\ config' = scan_config

\* ------------------------------------- the scan's background operation
\* QueryOps that may wait for the background thread.
MaxPending == 2

\* generateFurigana calls one do_update makes.
MaxCalls == 2

VARIABLES
  pending,  \* QueryOps started by run_furigana_scan that have not begun
  bgop      \* generateFurigana calls the running do_update has left; 0: none runs

concVars == <<pending, bgop>>

ConcQuiet == pending = 0 /\ bgop = 0

\* __init__.py line 133: run_furigana_scan, called on the main thread by the
\* timer or the menu, hands do_update to a QueryOp and returns.
ScanStartsQueryOp ==
  /\ gpc["main"] = "idle"
  /\ pending < MaxPending
  /\ pending' = pending + 1
  /\ UNCHANGED <<bgop, genVars>>

\* The background thread takes the next QueryOp: do_update begins (line 97).
\* Operations on the collection run one after the other.
DoUpdateBegin ==
  /\ bgop = 0
  /\ pending > 0
  /\ gpc["bg"] = "idle"
  /\ pending' = pending - 1
  /\ \E n \in 1..MaxCalls : bgop' = n
  /\ UNCHANGED genVars

\* Line 119: do_update calls generateFurigana on a source field that is not
\* effectively empty.
DoUpdateGenerate ==
  /\ bgop > 0
  /\ gpc["bg"] = "idle"
  /\ \E html \in {Kanji, KanjiBracket}, opts \in OptionSamples :
       GenCall("bg", html, opts[1], opts[2])
  /\ UNCHANGED concVars

\* Lines 119-126: the call returns and do_update goes on.
DoUpdateTakeResult ==
  /\ gpc["bg"] = "done"
  /\ GenReturn("bg")
  /\ bgop' = bgop - 1
  /\ UNCHANGED pending

\* Line 119: the call raises; do_update ends with the exception.
DoUpdateRaised ==
  /\ gpc["bg"] = "raised"
  /\ GenReturn("bg")
  /\ bgop' = 0
  /\ UNCHANGED pending

\* __init__.py lines 362-368: the editor button, pressed while scans may run.
onGenerateFuriganaDuringScan ==
  /\ gpc["main"] = "idle"
  /\ \E html \in {Kanji, <<" ">>}, opts \in OptionSamples :
       GenCall("main", html, opts[1], opts[2])
  /\ UNCHANGED concVars

\* ------------------------------------------------------- Config (config.py)
\* Objects of each kind the heap may hold.
MaxObjs == 2

Intervals == {30, 60}
ShortcutNames == {"add_furigana", "del_furigana"}
Keys == {"Ctrl+R", "Ctrl+Alt+R"}
BulkConfigs == {"All Decks", "D"}
ConfigKeys ==
  {"useRubyTags", "ignoreNumbers", "keyboardShortcut", "autoGenerateConfig",
   "lastBulkConfig"}

VARIABLES
  data,    \* Config.data; its autoGenerateConfig is a reference to a dict
  heap,    \* the dicts, the lists of rules and the rule dicts, by reference
  store,   \* what addonManager.writeConfig last wrote (or the file at start)
  held,    \* the autoGenerateConfig dict a caller holds, and where it got it
  lastOp   \* the kind of the last step: a setter, the getter, a caller's step

cfgVars == <<data, heap, store, held, lastOp>>

NoHeld == [ref |-> 0, from |-> "none"]

\* The rule list of dict d, as references.
RulesOf(h, d) == h.lists[h.dicts[d].rules]

\* json.dumps of an autoGenerateConfig dict: the values, all the way down.
DumpAuto(h, d) ==
  [enabled |-> h.dicts[d].enabled,
   scanIntervalSeconds |-> h.dicts[d].scanIntervalSeconds,
   rules |-> [k \in 1..Len(RulesOf(h, d)) |-> h.rules[RulesOf(h, d)[k]]]]

\* An object no reference leads to is freed: neither data nor the caller can
\* read it again.
FreedDict == [enabled |-> FALSE, scanIntervalSeconds |-> 30, rules |-> 1]
FreedRule == [deckName |-> "", fieldPairs |-> <<>>]

Collect(h, roots) ==
  LET liveLists == {h.dicts[d].rules : d \in roots}
      liveRules == UNION {Range(h.lists[l]) : l \in liveLists}
  IN [dicts |-> [d \in 1..Len(h.dicts) |->
                   IF d \in roots THEN h.dicts[d] ELSE FreedDict],
      lists |-> [l \in 1..Len(h.lists) |->
                   IF l \in liveLists THEN h.lists[l] ELSE <<>>],
      rules |-> [r \in 1..Len(h.rules) |->
                   IF r \in liveRules THEN h.rules[r] ELSE FreedRule]]

\* addonManager.writeConfig(addon_package, self.data): the file it leaves.
writeConfig(d, h) ==
  [present |-> ConfigKeys,
   value |-> [useRubyTags |-> d.useRubyTags,
              ignoreNumbers |-> d.ignoreNumbers,
              keyboardShortcut |-> d.keyboardShortcut,
              autoGenerateConfig |-> DumpAuto(h, d.autoGenerateConfig),
              lastBulkConfig |-> d.lastBulkConfig]]

DefaultData ==
  [useRubyTags |-> FALSE, ignoreNumbers |-> TRUE,
   keyboardShortcut |-> [n \in ShortcutNames |->
      IF n = "add_furigana" THEN "Ctrl+R" ELSE "Ctrl+Alt+R"],
   autoGenerateConfig |-> 1,
   lastBulkConfig |-> "All Decks"]

\* Config.__init__ on a file without autoGenerateConfig: the defaults.
FreshHeap ==
  [dicts |-> <<[enabled |-> FALSE, scanIntervalSeconds |-> 30, rules |-> 1]>>,
   lists |-> << <<>> >>,
   rules |-> <<>>]

\* Config.__init__ on a file that holds one rule.
LoadedHeap ==
  [dicts |-> <<[enabled |-> TRUE, scanIntervalSeconds |-> 30, rules |-> 1]>>,
   lists |-> << <<1>> >>,
   rules |-> <<[deckName |-> "D", fieldPairs |-> <<Pair("Expression", "Reading")>>]>>]

\* Lines 30-55: data is what the file holds, with the missing keys set to
\* their defaults in memory only.
ConfigInit ==
  /\ data = DefaultData
  /\ held = NoHeld
  /\ lastOp = "__init__"
  /\ \/ /\ heap = FreshHeap
        /\ store = [writeConfig(data, heap) EXCEPT
                      !.present = ConfigKeys \ {"autoGenerateConfig", "lastBulkConfig"}]
     \/ /\ heap = LoadedHeap
        /\ store = writeConfig(data, heap)

CfgQuiet ==
  /\ data = DefaultData /\ heap = FreshHeap /\ held = NoHeld
  /\ lastOp = "__init__"
  /\ store = writeConfig(DefaultData, FreshHeap)

\* saveMe, lines 22-24: the wrapped setter runs, then self.data is written.
saveMeWritesFirst(before, after) == before
saveMe(before, after) == after

\* A setter under @saveMe that leaves data d and heap h.
Setter(d, h) ==
  /\ data' = d
  /\ heap' = h
  /\ store' = saveMe(writeConfig(data, heap), writeConfig(d, h))
  /\ lastOp' = "setter"

setUseRubyTags ==
  \E isEnabled \in BOOLEAN :
    /\ Setter([data EXCEPT !.useRubyTags = isEnabled], heap)
    /\ UNCHANGED held

setIgnoreNumbers ==
  \E isEnabled \in BOOLEAN :
    /\ Setter([data EXCEPT !.ignoreNumbers = isEnabled], heap)
    /\ UNCHANGED held

setKeyboardShortcut ==
  \E name \in ShortcutNames, key \in Keys :
    /\ Setter([data EXCEPT !.keyboardShortcut[name] = key], heap)
    /\ UNCHANGED held

setLastBulkConfig ==
  \E bulkConfig \in BulkConfigs :
    /\ Setter([data EXCEPT !.lastBulkConfig = bulkConfig], heap)
    /\ UNCHANGED held

\* Lines 81-83: dict.copy() makes a new dict with the same values; its rules
\* entry is the same list object.
getAutoGenerateConfig ==
  /\ Len(heap.dicts) < MaxObjs
  /\ heap' = Collect([heap EXCEPT !.dicts = Append(@, heap.dicts[data.autoGenerateConfig])],
                     {data.autoGenerateConfig, Len(heap.dicts) + 1})
  /\ held' = [ref |-> Len(heap.dicts) + 1, from |-> "get"]
  /\ lastOp' = "getter"
  /\ UNCHANGED <<data, store>>

\* Lines 85-87: the caller's dict itself becomes data['autoGenerateConfig'].
setAutoGenerateConfig ==
  /\ held.ref # 0
  /\ Setter([data EXCEPT !.autoGenerateConfig = held.ref],
            Collect(heap, {held.ref}))
  /\ held' = [held EXCEPT !.from = "set"]

\* AutoGenerateDialog.get_config: a new dict with a new list of new rules.
DialogGetConfig ==
  /\ Len(heap.dicts) < MaxObjs
  /\ Len(heap.lists) < MaxObjs
  /\ Len(heap.rules) < MaxObjs
  /\ \E enabled \in BOOLEAN, interval \in Intervals, n \in 0..1, deck \in {"D"} :
       /\ heap' = Collect(
            [dicts |-> Append(heap.dicts,
                              [enabled |-> enabled, scanIntervalSeconds |-> interval,
                               rules |-> Len(heap.lists) + 1]),
             lists |-> Append(heap.lists,
                              IF n = 0 THEN <<>> ELSE <<Len(heap.rules) + 1>>),
             rules |-> IF n = 0 THEN heap.rules
                       ELSE Append(heap.rules,
                                   [deckName |-> deck,
                                    fieldPairs |-> <<Pair("Expression", "Reading")>>])],
            {data.autoGenerateConfig, Len(heap.dicts) + 1})
       /\ held' = [ref |-> Len(heap.dicts) + 1, from |-> "dialog"]
  /\ lastOp' = "caller"
  /\ UNCHANGED <<data, store>>

\* A caller assigns a key of the dict it holds.
CallerSetEnabled ==
  /\ held.ref # 0
  /\ \E b \in BOOLEAN : heap' = [heap EXCEPT !.dicts[held.ref].enabled = b]
  /\ lastOp' = "mutate"
  /\ UNCHANGED <<data, store, held>>

\* A caller appends a rule to the rules list of the dict it holds.
CallerAppendRule ==
  /\ held.ref # 0
  /\ Len(heap.rules) < MaxObjs
  /\ \E deck \in {"E"} :
       heap' = [heap EXCEPT
                  !.rules = Append(@, [deckName |-> deck,
                                       fieldPairs |-> <<Pair("Expression", "Reading")>>]),
                  !.lists[heap.dicts[held.ref].rules] = Append(@, Len(heap.rules) + 1)]
  /\ lastOp' = "mutate"
  /\ UNCHANGED <<data, store, held>>

\* A caller changes an entry of a rule in the rules list of the dict it holds.
CallerEditRule ==
  /\ held.ref # 0
  /\ \E k \in 1..Len(RulesOf(heap, held.ref)), pairs \in {<<>>} :
       /\ heap.rules[RulesOf(heap, held.ref)[k]].fieldPairs # pairs
       /\ heap' = [heap EXCEPT !.rules[RulesOf(heap, held.ref)[k]].fieldPairs = pairs]
  /\ lastOp' = "mutate"
  /\ UNCHANGED <<data, store, held>>

\* ------------------------------------------------ one scan after another
VARIABLES
  last_scan   \* how the scan before ended, and the configuration it worked with

NoScan ==
  [pc |-> "none", is_manual |-> FALSE, notes_modified_count |-> 0,
   config |-> ConfigUnread]

\* Rule lists in which no destination is named twice and no field is both a
\* source and a destination, besides those of RuleLists.
MoreRuleLists ==
  { <<Rule(<<"E">>, <<Pair("Reading", "Notes")>>)>>,
    <<Rule(<<"D">>, <<Pair("Expression", "Reading"), Pair("Expression", "Notes")>>)>>,
    <<Rule(<<"D">>, <<Pair("Expression", "Reading")>>),
      Rule(<<"D", "S">>, <<Pair("Expression", "Notes")>>)>> }

TwiceConfigs ==
  [enabled : BOOLEAN, rules : RuleLists \cup MoreRuleLists, opts : OptionSamples,
   read : {TRUE}]

\* The first scan, with any configuration.
ScanCallFirst ==
  /\ scan.pc = "idle" /\ bulk.pc = "idle" /\ ops = 0
  /\ \E is_manual \in BOOLEAN, scan_config \in TwiceConfigs :
    /\ \E nids \in Orders(find_notes_to_process(col, scan_config.rules)) \cup {<<>>} :
         /\ run_furigana_scan(is_manual, scan_config, nids)
         /\ config' = scan_config
  /\ UNCHANGED last_scan

\* The next scan, right after the first: the configuration is as it was and
\* nothing but the first scan has written to the collection.
ScanCallAgain ==
  /\ scan.pc = "idle" /\ bulk.pc = "idle" /\ ops = 1
  /\ last_scan.pc # "none"
  /\ \E is_manual \in BOOLEAN :
    /\ \E nids \in Orders(find_notes_to_process(col, last_scan.config.rules)) \cup {<<>>} :
         /\ run_furigana_scan(is_manual, last_scan.config, nids)
         /\ config' = last_scan.config
  /\ UNCHANGED last_scan

\* The scan is over; how it ended is kept.
ScanReturnNoted ==
  /\ ScanReturn
  /\ last_scan' = [pc |-> scan.pc, is_manual |-> scan.is_manual,
                   notes_modified_count |-> scan.notes_modified_count,
                   config |-> config]

\* ------------------------------------------ setup_auto_scanner (__init__.py)
VARIABLES
  auto_scan_timer,      \* the module's timer: how many were made, and its Qt state
  main_window_did_init  \* the main_window_did_init hook has run

timerVars == <<auto_scan_timer, main_window_did_init>>

\* Line 36: auto_scan_timer = None.
NoTimer ==
  [created |-> 0, connections |-> 0, singleShot |-> FALSE, active |-> FALSE,
   interval |-> 0]

TimerQuiet == auto_scan_timer = NoTimer /\ main_window_did_init = FALSE

\* Line 384: "if not auto_scan_timer".
TimerIsNone(t) == t.created = 0

\* Line 392: the timer is started when it does not run or runs at another pace.
NeedsStartIfInactive(t, interval_ms) == ~t.active
NeedsStart(t, interval_ms) == ~t.active \/ t.interval # interval_ms

\* Lines 380-400, on the dict getAutoGenerateConfig returns: the timer afterwards.
setup_auto_scanner(t, scan_config) ==
  LET timer == IF TimerIsNone(t)
               THEN [created |-> t.created + 1, connections |-> 1,
                     singleShot |-> FALSE, active |-> FALSE, interval |-> 0]
               ELSE t
      interval_ms == scan_config.scanIntervalSeconds * 1000
  IN  IF scan_config.enabled
      THEN IF NeedsStart(timer, interval_ms)
           THEN [timer EXCEPT !.active = TRUE, !.interval = interval_ms]
           ELSE timer
      ELSE IF timer.active THEN [timer EXCEPT !.active = FALSE] ELSE timer

\* Lines 402-404: the hook runs once, when the main window is there.
on_main_window_did_init ==
  /\ ~main_window_did_init
  /\ main_window_did_init' = TRUE
  /\ auto_scan_timer' =
       setup_auto_scanner(auto_scan_timer, heap.dicts[data.autoGenerateConfig])
  /\ UNCHANGED cfgVars

\* The values the dialog's interval spin box gives: its range is 5..600.
SpinBoxValues == {5, 30, 600}

\* Lines 309-314, the dialog accepted: get_config builds a new dict, the setter
\* stores and writes it, setup_auto_scanner follows.  The dict data held before
\* and the local new_config are gone when the handler returns.
onShowAutoConfig ==
  /\ main_window_did_init
  /\ \E enabled \in BOOLEAN, interval \in SpinBoxValues, n \in 0..1 :
       LET new_heap ==
             [dicts |-> <<[enabled |-> enabled, scanIntervalSeconds |-> interval,
                           rules |-> 1]>>,
              lists |-> <<IF n = 0 THEN <<>> ELSE <<1>> >>,
              rules |-> IF n = 0 THEN <<>>
                        ELSE <<[deckName |-> "D",
                                fieldPairs |-> <<Pair("Expression", "Reading")>>]>>]
       IN  /\ Setter([data EXCEPT !.autoGenerateConfig = 1], new_heap)
           /\ auto_scan_timer' = setup_auto_scanner(auto_scan_timer, new_heap.dicts[1])
  /\ UNCHANGED <<held, main_window_did_init>>

\* What run_furigana_scan reads from Config: the rules with their deck names
\* split at "::", and the two options do_update passes on.
ScanConfigOf(d, h) ==
  [enabled |-> h.dicts[d.autoGenerateConfig].enabled,
   rules |-> [k \in 1..Len(RulesOf(h, d.autoGenerateConfig)) |->
                Rule(<<h.rules[RulesOf(h, d.autoGenerateConfig)[k]].deckName>>,
                     h.rules[RulesOf(h, d.autoGenerateConfig)[k]].fieldPairs)],
   opts |-> <<d.ignoreNumbers, d.useRubyTags>>,
   read |-> TRUE]

\* Line 387: the timer's timeout runs the connected scan; the timer is not
\* single-shot (line 386), so it goes on.
TimerTimeout ==
  /\ auto_scan_timer.active
  /\ auto_scan_timer.connections = 1
  /\ scan.pc = "idle" /\ bulk.pc = "idle" /\ ops < MaxOps
  /\ \E nids \in Orders(find_notes_to_process(col, ScanConfigOf(data, heap).rules)) \cup {<<>>} :
       run_furigana_scan(FALSE, ScanConfigOf(data, heap), nids)
  /\ config' = ScanConfigOf(data, heap)
  /\ auto_scan_timer' =
       IF auto_scan_timer.singleShot THEN [auto_scan_timer EXCEPT !.active = FALSE]
       ELSE auto_scan_timer
  /\ UNCHANGED <<cfgVars, main_window_did_init>>

\* ------------------------------------------------------------ specifications
vars == <<genVars, batchVars, concVars, cfgVars, timerVars, last_scan>>

BatchQuiet ==
  /\ col = <<>> /\ ops = 0 /\ bulk = BulkIdle /\ clock = ProgressInterval
  /\ reports = <<>> /\ calls = <<>> /\ cancelRequested = FALSE
  /\ config = ConfigUnread /\ scan = ScanIdle

\* The batch operations on a collection: bulkGenerate calls and scans, one at a
\* time; the clock stands still.
Init ==
  /\ GenInit /\ BulkInit /\ config = ConfigUnread /\ scan = ScanIdle
  /\ ConcQuiet /\ CfgQuiet /\ TimerQuiet /\ last_scan = NoScan

Next ==
  \/ BulkCall /\ UNCHANGED <<genVars, config, scan, concVars, cfgVars, timerVars, last_scan>>
  \/ BulkGetNote /\ UNCHANGED <<genVars, config, scan, concVars, cfgVars, timerVars, last_scan>>
  \/ BulkPair /\ UNCHANGED <<genVars, config, scan, concVars, cfgVars, timerVars, last_scan>>
  \/ BulkPairFail /\ UNCHANGED <<genVars, config, scan, concVars, cfgVars, timerVars, last_scan>>
  \/ BulkEndNote /\ UNCHANGED <<genVars, config, scan, concVars, cfgVars, timerVars, last_scan>>
  \/ BulkProgressCheck /\ UNCHANGED <<genVars, config, scan, concVars, cfgVars, timerVars, last_scan>>
  \/ BulkReport /\ UNCHANGED <<genVars, config, scan, concVars, cfgVars, timerVars, last_scan>>
  \/ BulkSetLast /\ UNCHANGED <<genVars, config, scan, concVars, cfgVars, timerVars, last_scan>>
  \/ BulkReturn /\ UNCHANGED <<genVars, config, scan, concVars, cfgVars, timerVars, last_scan>>
  \/ ScanCall /\ UNCHANGED <<genVars, concVars, cfgVars, timerVars, last_scan>>
  \/ ScanGetNote /\ UNCHANGED <<genVars, concVars, cfgVars, timerVars, last_scan>>
  \/ ScanNextRule /\ UNCHANGED <<genVars, concVars, cfgVars, timerVars, last_scan>>
  \/ ScanPair /\ UNCHANGED <<genVars, concVars, cfgVars, timerVars, last_scan>>
  \/ ScanPairFail /\ UNCHANGED <<genVars, concVars, cfgVars, timerVars, last_scan>>
  \/ ScanEndNote /\ UNCHANGED <<genVars, concVars, cfgVars, timerVars, last_scan>>
  \/ ScanReturn /\ UNCHANGED <<genVars, concVars, cfgVars, timerVars, last_scan>>

Spec == Init /\ [][Next]_vars

\* One bulkGenerate call at a time, while the clock runs and the user may ask
\* for the batch to stop.
NextBulk ==
  \/ BulkCallTimed /\ UNCHANGED <<genVars, config, scan, concVars, cfgVars, timerVars, last_scan>>
  \/ BulkGetNote /\ UNCHANGED <<genVars, config, scan, concVars, cfgVars, timerVars, last_scan>>
  \/ BulkPair /\ UNCHANGED <<genVars, config, scan, concVars, cfgVars, timerVars, last_scan>>
  \/ BulkPairFail /\ UNCHANGED <<genVars, config, scan, concVars, cfgVars, timerVars, last_scan>>
  \/ BulkEndNote /\ UNCHANGED <<genVars, config, scan, concVars, cfgVars, timerVars, last_scan>>
  \/ BulkProgressCheck /\ UNCHANGED <<genVars, config, scan, concVars, cfgVars, timerVars, last_scan>>
  \/ BulkReport /\ UNCHANGED <<genVars, config, scan, concVars, cfgVars, timerVars, last_scan>>
  \/ BulkSetLast /\ UNCHANGED <<genVars, config, scan, concVars, cfgVars, timerVars, last_scan>>
  \/ BulkReturn /\ UNCHANGED <<genVars, config, scan, concVars, cfgVars, timerVars, last_scan>>
  \/ Tick /\ UNCHANGED <<genVars, config, scan, concVars, cfgVars, timerVars, last_scan>>
  \/ RequestCancel /\ UNCHANGED <<genVars, config, scan, concVars, cfgVars, timerVars, last_scan>>

InitBulk == Init /\ col \in [NoteIds -> TimedNoteSamples]

SpecBulk == InitBulk /\ [][NextBulk]_vars

\* generateFurigana called from the editor, on every text of at most MaxLen symbols.
NextGen ==
  \/ onGenerateFurigana /\ UNCHANGED <<batchVars, concVars, cfgVars, timerVars, last_scan>>
  \/ GenReadingBegin("main") /\ UNCHANGED <<batchVars, concVars, cfgVars, timerVars, last_scan>>
  \/ GenReadingEnd("main") /\ UNCHANGED <<batchVars, concVars, cfgVars, timerVars, last_scan>>
  \/ GenReadingFail("main") /\ UNCHANGED <<batchVars, concVars, cfgVars, timerVars, last_scan>>
  \/ GenReturn("main") /\ UNCHANGED <<batchVars, concVars, cfgVars, timerVars, last_scan>>

InitGen == GenInit /\ BatchQuiet /\ ConcQuiet /\ CfgQuiet /\ TimerQuiet /\ last_scan = NoScan

SpecGen == InitGen /\ [][NextGen]_vars


\* The callers of generateFurigana side by side: scans started on the main
\* thread and run by the background thread, and the editor button.
NextConc ==
  \/ ScanStartsQueryOp /\ UNCHANGED <<batchVars, cfgVars, timerVars, last_scan>>
  \/ DoUpdateBegin /\ UNCHANGED <<batchVars, cfgVars, timerVars, last_scan>>
  \/ DoUpdateGenerate /\ UNCHANGED <<batchVars, cfgVars, timerVars, last_scan>>
  \/ DoUpdateTakeResult /\ UNCHANGED <<batchVars, cfgVars, timerVars, last_scan>>
  \/ DoUpdateRaised /\ UNCHANGED <<batchVars, cfgVars, timerVars, last_scan>>
  \/ onGenerateFuriganaDuringScan /\ UNCHANGED <<batchVars, cfgVars, timerVars, last_scan>>
  \/ (\E t \in Threads : GenReadingBegin(t)) /\ UNCHANGED <<batchVars, concVars, cfgVars, timerVars, last_scan>>
  \/ (\E t \in Threads : GenReadingEnd(t)) /\ UNCHANGED <<batchVars, concVars, cfgVars, timerVars, last_scan>>
  \/ (\E t \in Threads : GenReadingFail(t)) /\ UNCHANGED <<batchVars, concVars, cfgVars, timerVars, last_scan>>
  \/ GenReturn("main") /\ UNCHANGED <<batchVars, concVars, cfgVars, timerVars, last_scan>>

InitConc == GenInit /\ BatchQuiet /\ ConcQuiet /\ CfgQuiet /\ TimerQuiet /\ last_scan = NoScan

SpecConc == InitConc /\ [][NextConc]_vars

\* The Config object, its setters and a caller that holds an autoGenerateConfig.
NextConfig ==
  \/ setUseRubyTags /\ UNCHANGED <<genVars, batchVars, concVars, timerVars, last_scan>>
  \/ setIgnoreNumbers /\ UNCHANGED <<genVars, batchVars, concVars, timerVars, last_scan>>
  \/ setKeyboardShortcut /\ UNCHANGED <<genVars, batchVars, concVars, timerVars, last_scan>>
  \/ setLastBulkConfig /\ UNCHANGED <<genVars, batchVars, concVars, timerVars, last_scan>>
  \/ getAutoGenerateConfig /\ UNCHANGED <<genVars, batchVars, concVars, timerVars, last_scan>>
  \/ setAutoGenerateConfig /\ UNCHANGED <<genVars, batchVars, concVars, timerVars, last_scan>>
  \/ DialogGetConfig /\ UNCHANGED <<genVars, batchVars, concVars, timerVars, last_scan>>
  \/ CallerSetEnabled /\ UNCHANGED <<genVars, batchVars, concVars, timerVars, last_scan>>
  \/ CallerAppendRule /\ UNCHANGED <<genVars, batchVars, concVars, timerVars, last_scan>>
  \/ CallerEditRule /\ UNCHANGED <<genVars, batchVars, concVars, timerVars, last_scan>>

InitConfig == GenInit /\ BatchQuiet /\ ConcQuiet /\ ConfigInit /\ TimerQuiet /\ last_scan = NoScan

SpecConfig == InitConfig /\ [][NextConfig]_vars


\* The scan timer: the start-up hook, the configuration dialog, the two option
\* toggles of the menu and the timer's timeouts, on a collection without notes.
NextTimer ==
  \/ on_main_window_did_init /\ UNCHANGED <<genVars, batchVars, concVars, last_scan>>
  \/ onShowAutoConfig /\ UNCHANGED <<genVars, batchVars, concVars, last_scan>>
  \/ TimerTimeout /\ UNCHANGED <<genVars, concVars, last_scan>>
  \/ ScanReturn /\ UNCHANGED <<genVars, concVars, cfgVars, timerVars, last_scan>>
  \/ main_window_did_init /\ setUseRubyTags /\ UNCHANGED <<genVars, batchVars, concVars, timerVars, last_scan>>
  \/ main_window_did_init /\ setIgnoreNumbers /\ UNCHANGED <<genVars, batchVars, concVars, timerVars, last_scan>>

InitTimer == GenInit /\ BatchQuiet /\ ConcQuiet /\ ConfigInit /\ TimerQuiet /\ last_scan = NoScan

SpecTimer == InitTimer /\ [][NextTimer]_vars

\* Two scans, one right after the other, with the same configuration.
NextTwice ==
  \/ ScanCallFirst /\ UNCHANGED <<genVars, concVars, cfgVars, timerVars>>
  \/ ScanCallAgain /\ UNCHANGED <<genVars, concVars, cfgVars, timerVars>>
  \/ ScanGetNote /\ UNCHANGED <<genVars, concVars, cfgVars, timerVars, last_scan>>
  \/ ScanNextRule /\ UNCHANGED <<genVars, concVars, cfgVars, timerVars, last_scan>>
  \/ ScanPair /\ UNCHANGED <<genVars, concVars, cfgVars, timerVars, last_scan>>
  \/ ScanPairFail /\ UNCHANGED <<genVars, concVars, cfgVars, timerVars, last_scan>>
  \/ ScanEndNote /\ UNCHANGED <<genVars, concVars, cfgVars, timerVars, last_scan>>
  \/ ScanReturnNoted /\ UNCHANGED <<genVars, concVars, cfgVars, timerVars>>

InitTwice ==
  /\ GenInit /\ BulkInit /\ config = ConfigUnread /\ scan = ScanIdle
  /\ ConcQuiet /\ CfgQuiet /\ TimerQuiet /\ last_scan = NoScan

SpecTwice == InitTwice /\ [][NextTwice]_vars

\* ------------------------------------------------------------------- claims
\* The collection calls of the running batch that are named op.
CallsNamed(op) == SelectSeq(calls, LAMBDA c : c[1] = op)

\* C1: when the tokenizer fails while bulkGenerate or do_update is processing a
\* note, the batch ends with the exception, no update_note / flush has been issued
\* for that note, and the note is stored as it was before the batch began.
C1_FailureLeavesNoteUntouched ==
  /\ bulk.pc = "raised" =>
       LET nid == bulk.noteIds[bulk.i]
       IN  /\ col[nid] = bulk.col0[nid]
           /\ <<"update_note", nid>> \notin Range(calls)
  /\ scan.pc = "raised" =>
       LET nid == scan.nids[scan.k]
       IN  /\ col[nid] = scan.col0[nid]
           /\ <<"flush", nid>> \notin Range(calls)

\* The tokenizer has failed on a later field pair of a note, after an earlier
\* pair had assigned a destination field in memory.
C1_Witness ==
  /\ bulk.pc = "raised"
  /\ bulk.is_modified
  /\ bulk.note # col[bulk.noteIds[bulk.i]].flds

\* C2: whenever the html given to generateFurigana is empty or only whitespace,
\* the call is over at once with the empty string, whatever the two options are,
\* and neither removeFurigana nor the tokenizer has been called.
C2_BlankInputReturnsEmpty ==
  \A t \in Threads :
    (gpc[t] # "idle" /\ \A k \in DOMAIN ghtml[t] : ghtml[t][k] \in Whitespace)
      => gpc[t] = "done" /\ gres[t] = <<>> /\ glog[t] = <<>>

\* A call on a non-empty text of whitespace only, with both options set, has returned.
C2_Witness ==
  /\ gpc["main"] = "done"
  /\ Len(ghtml["main"]) >= 2
  /\ \A k \in DOMAIN ghtml["main"] : ghtml["main"][k] = " "
  /\ gopts["main"] = <<TRUE, TRUE>>

\* C4: a call on a text that is not blank calls removeFurigana on that text, then
\* the tokenizer once, on the stripped text and with the caller's two options, and
\* returns the tokenizer's answer unchanged; it makes no other call.
C4_StripThenTokenizeOnce ==
  \A t \in Threads :
    (gpc[t] # "idle" /\ \E k \in DOMAIN ghtml[t] : ghtml[t][k] \notin Whitespace)
      => LET stripCall == <<"removeFurigana", ghtml[t]>>
             readCall == <<"reading", removeFurigana(ghtml[t]), gopts[t][1], gopts[t][2]>>
         IN  /\ gpc[t] = "tokenize" => glog[t] = <<stripCall>>
             /\ gpc[t] \in {"inflight", "done", "raised"} => glog[t] = <<stripCall, readCall>>
             /\ gpc[t] = "done" =>
                  gres[t] = MecabReading(removeFurigana(ghtml[t]), gopts[t][1], gopts[t][2])

\* A call has returned on a text that held furigana, which the strip removed and
\* the tokenizer then wrote anew.
C4_Witness ==
  /\ gpc["main"] = "done"
  /\ removeFurigana(ghtml["main"]) # ghtml["main"]
  /\ gres["main"] # garg["main"]

RECURSIVE AfterPairs(_, _, _, _)
\* The note as bulkGenerate leaves it in memory after the pairs from k on, and
\* whether an assignment replaced a destination value by a different one.
AfterPairs(note, pairs, k, opts) ==
  IF k > Len(pairs) THEN [note |-> note, replaced |-> FALSE]
  ELSE LET p == pairs[k]
           hit == /\ p.source # "" /\ p.destination # ""
                  /\ p.source \in DOMAIN note /\ p.destination \in DOMAIN note
                  /\ note[p.source] # <<>>
           gen == IF \A x \in DOMAIN note[p.source] : note[p.source][x] \in Whitespace
                  THEN <<>>
                  ELSE MecabReading(removeFurigana(note[p.source]), opts[1], opts[2])
           changed == hit /\ gen # note[p.destination]
           rest == AfterPairs(IF changed THEN [note EXCEPT ![p.destination] = gen] ELSE note,
                              pairs, k + 1, opts)
       IN  [note |-> rest.note, replaced |-> changed \/ rest.replaced]

\* The positions of noteIds whose note has a destination value replaced.
ReplacedPositions ==
  { k \in DOMAIN bulk.noteIds :
      AfterPairs(bulk.col0[bulk.noteIds[k]].flds, bulk.field_pairs, 1,
                 <<bulk.ignore_numbers, bulk.use_ruby_tags>>).replaced }

\* C5: a bulkGenerate call that returns has loaded every note of noteIds, in
\* order; the count it returns is the number of notes in which a destination value
\* was replaced by a different generated value, which is the number of update_note
\* calls; a note without such a replacement is not committed and is stored as before.
C5_CountIsModifiedNotes ==
  bulk.pc = "done" =>
    /\ CallsNamed("get_note") = [k \in DOMAIN bulk.noteIds |-> <<"get_note", bulk.noteIds[k]>>]
    /\ bulk.notes_modified_count = Cardinality(ReplacedPositions)
    /\ bulk.notes_modified_count = Len(CallsNamed("update_note"))
    /\ \A k \in DOMAIN bulk.noteIds :
         LET nid == bulk.noteIds[k]
         IN  IF k \in ReplacedPositions
             THEN <<"update_note", nid>> \in Range(calls)
             ELSE /\ <<"update_note", nid>> \notin Range(calls)
                  /\ col[nid] = bulk.col0[nid]

\* A batch of two notes has returned 1: a note that needed nothing came first and
\* did not stop the batch, the note after it was modified.
C5_Witness ==
  /\ bulk.pc = "done"
  /\ Len(bulk.noteIds) = 2
  /\ ReplacedPositions = {2}
  /\ bulk.notes_modified_count = 1

\* The pair do_update is at.
ScanPairNow == scan.rules[scan.r].fieldPairs[scan.j]

\* The pairs of the rules that apply to a note of the given deck.
PairsFor(rules, deck) ==
  UNION { Range(rules[r].fieldPairs) :
            r \in {x \in DOMAIN rules : DeckMatches(deck, rules[x].deckName)} }

\* C6 (step): do_update assigns only the destination field of the pair it is at,
\* and only if the value it read there was effectively empty or equal to the
\* value of the pair's source field; and a scan changes a stored field only if
\* the stored value was effectively empty or equal to the stored value of the
\* source of a pair that has the field as destination.
C6_Step ==
  /\ (scan.pc = "pairs" /\ scan'.pc = "pairs" /\ scan'.note # scan.note) =>
       \A f \in DOMAIN scan.note :
         scan'.note[f] # scan.note[f] =>
           /\ f = ScanPairNow.destination
           /\ \/ is_field_effectively_empty(scan.note[f])
              \/ scan.note[ScanPairNow.source] = scan.note[f]
  /\ scan.pc # "idle" =>
       \A n \in NoteIds : \A f \in DOMAIN col[n].flds :
         col'[n].flds[f] # col[n].flds[f] =>
           \/ is_field_effectively_empty(col[n].flds[f])
           \/ \E p \in PairsFor(scan.rules, col[n].deck) :
                /\ p.destination = f /\ p.source \in DOMAIN col[n].flds
                /\ col[n].flds[p.source] = col[n].flds[f]

\* C6: no step of any sequence of scans replaces a destination value that was
\* neither effectively empty nor equal to the source.
C6_ScanKeepsOtherContent == [][C6_Step]_vars

\* A second scan has ended having modified a note, while a note it processed
\* keeps a destination that was not empty and differed from its source.
C6_Witness ==
  /\ scan.pc = "done" /\ ops = 2
  /\ scan.notes_modified_count >= 1
  /\ \E n \in Range(scan.nids) : \E p \in PairsFor(scan.rules, col[n].deck) :
       /\ ScanPairApplies(p, scan.col0[n].flds)
       /\ ~is_field_effectively_empty(scan.col0[n].flds[p.destination])
       /\ scan.col0[n].flds[p.destination] # scan.col0[n].flds[p.source]
       /\ col[n].flds[p.destination] = scan.col0[n].flds[p.destination]

\* C7: once the user has asked the running batch to stop, bulkGenerate loads no
\* further note.
C7_CancelStopsBatch ==
  [][cancelRequested => ~(bulk.pc = "loop" /\ bulk'.pc = "pairs")]_vars

\* C8: two consecutive progress reports of a bulkGenerate call are at least
\* ProgressInterval (0.1 s) of clock time apart; a report carries the position of
\* the note just processed and the length of noteIds; without a sink there is no
\* report.
C8_ProgressRateBounded ==
  /\ \A k \in 1..(Len(reports) - 1) : reports[k + 1].at - reports[k].at >= ProgressInterval
  /\ \A k \in DOMAIN reports :
       /\ reports[k].total = Len(bulk.noteIds)
       /\ reports[k].done \in 1..Len(bulk.noteIds)
       /\ k > 1 => reports[k].done > reports[k - 1].done
  /\ (bulk.pc = "setlast" /\ bulk.progress) => reports[Len(reports)].done = bulk.i
  /\ ~bulk.progress => reports = <<>>

\* Two reports have been made in one batch.
C8_Witness ==
  /\ Len(reports) = 2
  /\ reports[2].done = 2

\* C3: at most one tokenization request on the analyzer of bulk.py is in
\* flight at any time, whatever the interleaving of the background scan
\* operations and the editor button on the main thread.
C3_OneTokenizationInFlight ==
  Cardinality({t \in Threads : gpc[t] = "inflight"}) <= 1

\* C9: when a Config setter has just completed, the stored configuration equals
\* the in-memory data as that call's mutation left it.
C9_StoreEqualsDataAfterSetter ==
  lastOp = "setter" => store = writeConfig(data, heap)

\* A setter has completed after a caller changed the rules of the dict that
\* data holds: the store has the rule, and the value the setter set.
C9_Witness ==
  /\ lastOp = "setter"
  /\ store.value.useRubyTags
  /\ held.from = "set"
  /\ Len(store.value.autoGenerateConfig.rules) = 2
  /\ store.value.autoGenerateConfig = DumpAuto(heap, data.autoGenerateConfig)

\* C10: no change a caller makes to the value getAutoGenerateConfig returned,
\* its rules list and the rules in it included, changes the autoGenerateConfig
\* of the Config object (and so what a later setter writes).
C10_CopyPreventsModification ==
  [][(held.from = "get" /\ lastOp' = "mutate")
       => DumpAuto(heap', data'.autoGenerateConfig)
            = DumpAuto(heap, data.autoGenerateConfig)]_vars

\* C11: a scan that is not manual and finds enabled false returns without a
\* query to the collection, without a background operation and without a write
\* to a note; a manual scan goes on to the queries whatever enabled is.
C11_DisabledAutoScanDoesNothing ==
  (config.read /\ scan.pc # "idle") =>
    /\ (~scan.is_manual /\ ~config.enabled) =>
         /\ scan.pc = "returned"
         /\ calls = <<>>
         /\ col = scan.col0
    /\ (scan.is_manual /\ config.rules # <<>>) =>
         /\ Len(calls) >= Len(FindCalls(config.rules))
         /\ SubSeq(calls, 1, Len(FindCalls(config.rules))) = FindCalls(config.rules)
         /\ (find_notes_to_process(scan.col0, config.rules) # {}) =>
              /\ Len(calls) > Len(FindCalls(config.rules))
              /\ calls[Len(FindCalls(config.rules)) + 1] = <<"run_in_background">>

\* An automatic scan has returned with enabled false although its rules select
\* a note of the collection.
C11_Witness ==
  /\ scan.pc = "returned"
  /\ config.read /\ ~config.enabled /\ ~scan.is_manual
  /\ find_notes_to_process(col, config.rules) # {}
  /\ calls = <<>>

\* C12: once setup_auto_scanner has been called there is exactly one timer with
\* exactly one timeout connection, it is active exactly when enabled is true in
\* the current configuration, and an active timer's interval is
\* scanIntervalSeconds * 1000 of that configuration.
C12_TimerFollowsConfig ==
  main_window_did_init =>
    /\ auto_scan_timer.created = 1
    /\ auto_scan_timer.connections = 1
    /\ auto_scan_timer.active <=> heap.dicts[data.autoGenerateConfig].enabled
    /\ auto_scan_timer.active =>
         auto_scan_timer.interval
           = heap.dicts[data.autoGenerateConfig].scanIntervalSeconds * 1000

\* The timer runs at a pace it was given by a second configuration change
\* while it was already running at another.
C12_Witness ==
  /\ main_window_did_init
  /\ auto_scan_timer.active
  /\ auto_scan_timer.interval = 600000
  /\ heap.dicts[data.autoGenerateConfig].scanIntervalSeconds = 600
  /\ ops = MaxOps

\* The field pairs of all rules, by <<rule, pair>> position.
PairPositions(rules) ==
  {<<r, j>> \in (DOMAIN rules) \X (1..3) : j <= Len(rules[r].fieldPairs)}

\* Every destination is named by exactly one field pair, and no field is both a
\* source and a destination.
DisjointPairs(rules) ==
  \A p \in PairPositions(rules), q \in PairPositions(rules) :
    LET pp == rules[p[1]].fieldPairs[p[2]]
        qq == rules[q[1]].fieldPairs[q[2]]
    IN  /\ (p # q => pp.destination # qq.destination)
        /\ pp.source # qq.destination

\* The scan before went past the enabled test and ended without a failure.
LastScanCompleted ==
  /\ last_scan.pc \in {"done", "returned"}
  /\ ~ScanSkips(last_scan.config.enabled, last_scan.is_manual)

\* C13: a scan that follows a completed scan, with the same configuration, rules
\* as above and no other writer in between, assigns no field, flushes no note
\* and returns 0.
C13_SecondScanModifiesNothing ==
  (/\ scan.pc # "idle"
   /\ LastScanCompleted
   /\ DisjointPairs(config.rules)) =>
    /\ ~scan.note_was_modified
    /\ scan.notes_modified_count = 0
    /\ col = scan.col0
    /\ \A k \in DOMAIN calls : calls[k][1] # "flush"

\* The second scan has ended with 0 after the first one modified a note, and it
\* went through a note again whose destination equals its source.
C13_Witness ==
  /\ scan.pc = "done"
  /\ last_scan.pc = "done"
  /\ last_scan.notes_modified_count >= 1
  /\ LastScanCompleted
  /\ DisjointPairs(config.rules)
  /\ scan.notes_modified_count = 0
  /\ \E n \in Range(scan.nids) : \E p \in PairsFor(scan.rules, col[n].deck) :
       /\ ScanPairApplies(p, col[n].flds)
       /\ ~is_field_effectively_empty(col[n].flds[p.destination])
       /\ col[n].flds[p.source] = col[n].flds[p.destination]

====
